---------------------------- MODULE Spec2Model ----------------------------
(***************************************************************************)
(* A model of jsminor (src/jsminor.mjs): the static file cache and request  *)
(* handler, the content-type classifier, wsSend / logMsg, and the          *)
(* per-connection heartbeat of startServer.                                *)
(*                                                                         *)
(* JavaScript strings are modelled as sequences of one-character strings,  *)
(* so that path.basename, path.extname, endsWith, toLowerCase and string   *)
(* concatenation are computed character by character.                      *)
(***************************************************************************)
EXTENDS Integers, Sequences, FiniteSets, TLC

VARIABLES
    \* ---- content classifier (fileToContentType) ----
    clsName,      \* the file name handed to fileToContentType
    clsResult,    \* [done |-> the call has returned, cType |-> its "Content-Type"]
    \* ---- startup, static files, request handler ----
    phase,        \* "init" | "created" (cache built) | "listening"
    disk,         \* the static directory now: file name -> bytes (a partial function)
    diskAtStart,  \* the directory as it was when startServer listed and read it
    filesCache,   \* server.filesCache: own properties, file name -> bytes
    request,      \* the URL of the request handled last
    response,     \* what the handler did to its response object
    \* ---- websocket connections ----
    connected,    \* connection -> the 'connection' callback has run for it
    isAlive,      \* connection -> ws.isAlive
    pingTimer,    \* connection -> "unset" | "armed" | "cleared"
    readyState,   \* connection -> "OPEN" | "CLOSING" | "CLOSED"
    pingCb,       \* connection -> outcomes of written pings whose callback is due
    sendCb,       \* connection -> outcomes of written sends whose callback is due
    nextTickCb,   \* the callback queued with process.nextTick, if any
    lastEvent,    \* the callback or call that ran last, and what it did, in order
    \* ---- history of the environment (not read by the program) ----
    ticks,        \* connection -> timer callbacks run, saturating at MaxTicks
    everPong,     \* connection -> a pong has been received
    acked,        \* connection -> a pong arrived since the last probe was sent
    pongs,        \* connection -> pongs since the last tick: "none" | "one" | "many"
    missed,       \* connection -> some tick found its previous probe unacknowledged
    pingFailed,   \* connection -> a probe send has failed
    closeCalls    \* connection -> calls of closeWs, saturating at 2

vars == << clsName, clsResult, phase, disk, diskAtStart, filesCache, request,
           response, connected, isAlive, pingTimer, readyState, pingCb, sendCb,
           nextTickCb, lastEvent, ticks, everPong, acked, pongs, missed,
           pingFailed, closeCalls >>

clsVars  == << clsName, clsResult >>
httpVars == << phase, disk, diskAtStart, filesCache, request, response >>
wsVars   == << connected, isAlive, pingTimer, readyState, pingCb, sendCb,
               nextTickCb >>
histVars == << ticks, everPong, acked, pongs, missed, pingFailed, closeCalls >>

----------------------------------------------------------------------------
(* Bounds of the model *)

\* longest generated file name (content classifier inputs)
MaxNameLen == 3
\* longest generated request URL
MaxUrlLen == 3
\* the tick counter saturates here
MaxTicks == 3
\* ws.ping callbacks that may be outstanding on one connection
MaxPending == 1
\* ticks each of two connections is followed for
PairTicks == 2
\* calls a chain of logMsg and wsSend calling each other is followed for
MaxDepth == 3

----------------------------------------------------------------------------
(* Strings as character sequences *)

RECURSIVE SeqsUpTo(_, _)
SeqsUpTo(S, n) ==
    IF n = 0 THEN { <<>> }
    ELSE LET shorter == SeqsUpTo(S, n - 1)
         IN  shorter \cup { Append(s, ch) : s \in shorter, ch \in S }

UpperToLower ==
    [ A |-> "a", B |-> "b", C |-> "c", D |-> "d", E |-> "e", F |-> "f",
      G |-> "g", H |-> "h", I |-> "i", J |-> "j", K |-> "k", L |-> "l",
      M |-> "m", N |-> "n", O |-> "o", P |-> "p", Q |-> "q", R |-> "r",
      S |-> "s", T |-> "t", U |-> "u", V |-> "v", W |-> "w", X |-> "x",
      Y |-> "y", Z |-> "z" ]

\* String.prototype.toLowerCase
toLowerCase(s) ==
    [ i \in 1..Len(s) |->
        IF s[i] \in DOMAIN UpperToLower THEN UpperToLower[s[i]] ELSE s[i] ]

\* String.prototype.slice(1)
slice1(s) == IF Len(s) <= 1 THEN <<>> ELSE SubSeq(s, 2, Len(s))

\* String.prototype.endsWith('/')
endsWithSlash(s) == Len(s) > 0 /\ s[Len(s)] = "/"

\* the positions of character ch in s
Positions(s, ch) == { i \in 1..Len(s) : s[i] = ch }

Max(S) == CHOOSE x \in S : \A y \in S : y <= x
Min(S) == CHOOSE x \in S : \A y \in S : x <= y

\* path.basename (posix): trailing separators are dropped, then the part after
\* the last remaining separator is returned
RECURSIVE stripTrailingSlashes(_)
stripTrailingSlashes(s) ==
    IF endsWithSlash(s) THEN stripTrailingSlashes(SubSeq(s, 1, Len(s) - 1)) ELSE s

basename(p) ==
    LET q == stripTrailingSlashes(p)
        slashes == Positions(q, "/")
    IN  IF slashes = {} THEN q ELSE SubSeq(q, Max(slashes) + 1, Len(q))

\* path.extname (posix) of a name: from the last '.' of the last path segment
\* to its end; '' when there is no '.', when the only '.' is its first character,
\* and for '..'
extname(p) ==
    LET b == basename(p)
        dots == Positions(b, ".")
    IN  IF dots = {} THEN <<>>
        ELSE IF Max(dots) = 1 THEN <<>>
        ELSE IF b = << ".", "." >> THEN <<>>
        ELSE SubSeq(b, Max(dots), Len(b))

----------------------------------------------------------------------------
(* fileToContentType *)

Str_js    == << "j", "s" >>
Str_txt   == << "t", "x", "t" >>
Str_gif   == << "g", "i", "f" >>
Str_jpg   == << "j", "p", "g" >>
Str_jpeg  == << "j", "p", "e", "g" >>
Str_png   == << "p", "n", "g" >>
Str_pdf   == << "p", "d", "f" >>
Str_zip   == << "z", "i", "p" >>
Str_mp3   == << "m", "p", "3" >>
Str_wav   == << "w", "a", "v" >>
Str_plain == << "p", "l", "a", "i", "n" >>
Str_text  == << "t", "e", "x", "t", "/" >>

CT_javascript == << "a","p","p","l","i","c","a","t","i","o","n","/","j","a","v","a","s","c","r","i","p","t" >>
CT_textplain  == Str_text \o Str_plain
CT_gif        == << "i","m","a","g","e","/","g","i","f" >>
CT_jpeg       == << "i","m","a","g","e","/","j","p","e","g" >>
CT_png        == << "i","m","a","g","e","/","p","n","g" >>
CT_pdf        == << "a","p","p","l","i","c","a","t","i","o","n","/","p","d","f" >>
CT_zip        == << "a","p","p","l","i","c","a","t","i","o","n","/","z","i","p" >>
CT_mpeg       == << "a","u","d","i","o","/","m","p","e","g" >>
CT_xwav       == << "a","u","d","i","o","/","x","-","w","a","v" >>

\* fileToContentType without .toLowerCase(): the extension is compared as written
fileToContentType_CaseSensitive(fileName) ==
    LET ext == slice1(extname(fileName))
        cType == Str_text \o (IF ext # <<>> THEN ext ELSE Str_plain)
    IN  IF ext = Str_js THEN CT_javascript
        ELSE IF ext = Str_txt THEN CT_textplain
        ELSE IF ext = Str_gif THEN CT_gif
        ELSE IF ext = Str_jpg \/ ext = Str_jpeg THEN CT_jpeg
        ELSE IF ext = Str_png THEN CT_png
        ELSE IF ext = Str_pdf THEN CT_pdf
        ELSE IF ext = Str_zip THEN CT_zip
        ELSE IF ext = Str_mp3 THEN CT_mpeg
        ELSE IF ext = Str_wav THEN CT_xwav
        ELSE cType

\* the value of the "Content-Type" key of the head object returned
fileToContentType(fileName) ==
    LET ext == slice1(toLowerCase(extname(fileName)))
        cType == Str_text \o (IF ext # <<>> THEN ext ELSE Str_plain)
    IN  IF ext = Str_js THEN CT_javascript
        ELSE IF ext = Str_txt THEN CT_textplain
        ELSE IF ext = Str_gif THEN CT_gif
        ELSE IF ext = Str_jpg \/ ext = Str_jpeg THEN CT_jpeg
        ELSE IF ext = Str_png THEN CT_png
        ELSE IF ext = Str_pdf THEN CT_pdf
        ELSE IF ext = Str_zip THEN CT_zip
        ELSE IF ext = Str_mp3 THEN CT_mpeg
        ELSE IF ext = Str_wav THEN CT_xwav
        ELSE cType

----------------------------------------------------------------------------
(* The classifier applied to file names *)

\* file names written out: every override in some mix of cases, the README's
\* html page, names with no extension, dot files
SampleNames ==
    { << "a", "." >> \o e : e \in
        { Str_js, Str_txt, Str_gif, Str_jpg, Str_jpeg, Str_png, Str_pdf,
          Str_zip, Str_mp3, Str_wav,
          << "P", "N", "G" >>, << "J", "p", "E", "g" >>, << "M", "P", "3" >>,
          << "x", "y", "z" >>, << "X", "y", "Z" >>, << "h", "t", "m", "l" >>,
          << "c", "s", "s" >>, << "t", "a", "r", ".", "Z", "I", "P" >> } }
    \cup { << "a" >>, << ".", "j", "s" >>, << "a", ".", "j", "s", "." >>,
           << "j", "s" >>, << ".", ".", "p", "n", "g" >> }

ClsAlphabet == { "a", ".", "J", "s" }

\* the names fileToContentType is applied to: they hold no path separator, as
\* the request handler passes path.basename(url) or 'index.html'
ClsNames == SampleNames \cup SeqsUpTo(ClsAlphabet, MaxNameLen)

ClsIdle == [ done |-> FALSE, cType |-> <<>> ]

\* fileToContentType(fileName) is called and returns
Classify ==
    /\ ~clsResult.done
    /\ clsResult' = [ done |-> TRUE, cType |-> fileToContentType(clsName) ]
    /\ UNCHANGED clsName
    /\ UNCHANGED << httpVars, wsVars, lastEvent, histVars >>

\* the next call, with another file name
ClassifyNext ==
    /\ clsResult.done
    /\ clsName' \in ClsNames
    /\ clsResult' = ClsIdle
    /\ UNCHANGED << httpVars, wsVars, lastEvent, histVars >>

----------------------------------------------------------------------------
(* The static directory, server.filesCache and the 'request' handler *)

N_index_html  == << "i","n","d","e","x",".","h","t","m","l" >>
N_index_htm   == << "i","n","d","e","x",".","h","t","m" >>
N_a           == << "a" >>
N_constructor == << "c","o","n","s","t","r","u","c","t","o","r" >>
N_toString    == << "t","o","S","t","r","i","n","g" >>
N_proto       == << "_","_","p","r","o","t","o","_","_" >>

\* names a file of the static directory may have
DiskNames == { N_index_html, N_index_htm, N_a }

\* file contents; an empty file is read as an empty Buffer
Bytes == { <<>>, << 1 >> }

\* the directories: any subset of the names, each file with any contents
Disks == UNION { [ D -> Bytes ] : D \in SUBSET DiskNames }

\* property names every object literal inherits from Object.prototype (some of them)
ObjectPrototypeNames == { N_constructor, N_toString, N_proto }

\* server.filesCache[fileName]: an own property holds the Buffer read at
\* startup; an inherited method is a function; the inherited accessor
\* __proto__ yields Object.prototype, an object; anything else is undefined
Lookup(cache, fileName) ==
    IF fileName \in DOMAIN cache
      THEN [ kind |-> "buffer", bytes |-> cache[fileName] ]
    ELSE IF fileName = N_proto
      THEN [ kind |-> "object", bytes |-> <<>> ]
    ELSE IF fileName \in ObjectPrototypeNames
      THEN [ kind |-> "function", bytes |-> <<>> ]
    ELSE [ kind |-> "undefined", bytes |-> <<>> ]

\* JavaScript truthiness of a looked-up value (a Buffer is an object: truthy
\* even when it is empty)
Truthy(v) == v.kind # "undefined"

UrlAlphabet == { "/", "a", "." }

Slash == << "/" >>

\* request URLs: written out, and all short ones over UrlAlphabet
Urls ==
    { Slash, <<>>, Slash \o N_index_html, Slash \o N_index_htm,
      Slash \o N_a \o Slash \o N_index_htm, Slash \o N_index_htm \o Slash,
      Slash \o N_constructor, Slash \o N_toString, Slash \o N_proto,
      Slash \o N_a \o << ".", "j", "s" >> }
    \cup SeqsUpTo(UrlAlphabet, MaxUrlLen)

NoResponse ==
    [ status |-> 0, cType |-> <<>>, body |-> "none", bytes |-> <<>>,
      ended |-> FALSE, logged |-> "none" ]

\* the request handler without the collapse of 'index.htm' to 'index.html'
ResolveName_KeepHtm(url) ==
    LET fileName == basename(url)
    IN  IF endsWithSlash(url) \/ fileName = <<>> \/ fileName = N_index_html
        THEN N_index_html
        ELSE fileName

\* the file name the handler resolves a URL to (lines 289-290)
ResolveName(url) ==
    LET fileName == basename(url)
    IN  IF endsWithSlash(url) \/ fileName = <<>> \/ fileName = N_index_html
           \/ fileName = N_index_htm
        THEN N_index_html
        ELSE fileName

\* startServer up to server.listen: the directory is listed and every file
\* read into server.filesCache, and the request handler is registered
StartServer ==
    /\ phase = "init"
    /\ filesCache' = [ file \in DOMAIN disk |-> disk[file] ]
    /\ diskAtStart' = disk
    /\ phase' = "created"
    /\ UNCHANGED << disk, request, response >>
    /\ UNCHANGED << clsVars, wsVars, lastEvent, histVars >>

\* the callback of server.listen runs: the port is bound
Listening ==
    /\ phase = "created"
    /\ phase' = "listening"
    /\ UNCHANGED << disk, diskAtStart, filesCache, request, response >>
    /\ UNCHANGED << clsVars, wsVars, lastEvent, histVars >>

\* a file of the static directory is written, created or deleted while the
\* server runs (one such change is followed)
DiskWrite ==
    /\ phase = "listening"
    /\ disk = diskAtStart
    /\ \E f \in DiskNames :
         \/ \E b \in Bytes :
              /\ f \in DOMAIN disk => disk[f] # b
              /\ disk' = [ g \in DOMAIN disk \cup { f } |->
                             IF g = f THEN b ELSE disk[g] ]
         \/ /\ f \in DOMAIN disk
            /\ disk' = [ g \in DOMAIN disk \ { f } |-> disk[g] ]
    /\ UNCHANGED << phase, diskAtStart, filesCache, request, response >>
    /\ UNCHANGED << clsVars, wsVars, lastEvent, histVars >>

\* the 'request' handler, run for a request with this URL
Request(url) ==
    /\ phase = "listening"
    /\ request' = url
    /\ LET fileName == ResolveName(url)
           v == Lookup(filesCache, fileName)
       IN  response' =
             IF Truthy(v)
             THEN IF v.kind = "buffer"
                  THEN [ status |-> 200, cType |-> fileToContentType(fileName),
                         body |-> "bytes", bytes |-> v.bytes,
                         ended |-> TRUE, logged |-> "none" ]
                  \* response.end(<a function>) takes the function for its
                  \* callback: the response is ended with no body
                  ELSE IF v.kind = "function"
                  THEN [ status |-> 200, cType |-> fileToContentType(fileName),
                         body |-> "empty", bytes |-> <<>>,
                         ended |-> TRUE, logged |-> "none" ]
                  \* response.end(<an object>) throws after writeHead: the
                  \* error is caught and logged, the response is not ended
                  ELSE [ status |-> 200, cType |-> fileToContentType(fileName),
                         body |-> "none", bytes |-> <<>>,
                         ended |-> FALSE, logged |-> "error" ]
             ELSE [ status |-> 404, cType |-> CT_textplain,
                    body |-> "404 Not Found", bytes |-> <<>>,
                    ended |-> TRUE, logged |-> "info" ]
    /\ UNCHANGED << phase, disk, diskAtStart, filesCache >>
    /\ UNCHANGED << clsVars, wsVars, lastEvent, histVars >>

----------------------------------------------------------------------------
(* JSON.parse, on the part of the grammar the message payloads use:          *)
(*   value ::= number | string | array                                     *)
(*   number ::= digit+      string ::= '"' letter* '"'                      *)
(*   array ::= '[' ']' | '[' value (',' value)* ']'                         *)

Quote == "\""

DigitVal == [ x \in { "1", "2" } |-> IF x = "1" THEN 1 ELSE 2 ]

ParseFail == [ ok |-> FALSE, val |-> [ t |-> "none" ], next |-> 0 ]

\* the digits from position i on: their value and the position after them
RECURSIVE ParseDigits(_, _, _)
ParseDigits(s, i, acc) ==
    IF i <= Len(s) /\ s[i] \in DOMAIN DigitVal
    THEN ParseDigits(s, i + 1, 10 * acc + DigitVal[s[i]])
    ELSE [ ok |-> TRUE, val |-> [ t |-> "num", n |-> acc ], next |-> i ]

RECURSIVE ParseValue(_, _), ParseItems(_, _, _)
ParseValue(s, i) ==
    IF i > Len(s) THEN ParseFail
    ELSE IF s[i] \in DOMAIN DigitVal THEN ParseDigits(s, i, 0)
    ELSE IF s[i] = Quote THEN
        LET closing == { j \in (i + 1)..Len(s) : s[j] = Quote }
        IN  IF closing = {} THEN ParseFail
            ELSE [ ok |-> TRUE,
                   val |-> [ t |-> "str", s |-> SubSeq(s, i + 1, Min(closing) - 1) ],
                   next |-> Min(closing) + 1 ]
    ELSE IF s[i] = "[" THEN
        IF i + 1 <= Len(s) /\ s[i + 1] = "]"
        THEN [ ok |-> TRUE, val |-> [ t |-> "arr", items |-> <<>> ], next |-> i + 2 ]
        ELSE ParseItems(s, i + 1, <<>>)
    ELSE ParseFail

\* the items of an array from position i on, after those in acc
ParseItems(s, i, acc) ==
    LET v == ParseValue(s, i)
    IN  IF ~v.ok \/ v.next > Len(s) THEN ParseFail
        ELSE IF s[v.next] = ","
          THEN ParseItems(s, v.next + 1, Append(acc, v.val))
        ELSE IF s[v.next] = "]"
          THEN [ ok |-> TRUE, val |-> [ t |-> "arr", items |-> Append(acc, v.val) ],
                 next |-> v.next + 1 ]
        ELSE ParseFail

\* JSON.parse(msg): [ok |-> TRUE, val |-> the value], or ok |-> FALSE when it
\* throws a SyntaxError
JSON_parse(msg) ==
    LET r == ParseValue(msg, 1)
    IN  IF r.ok /\ r.next = Len(msg) + 1
        THEN [ ok |-> TRUE, val |-> r.val ]
        ELSE [ ok |-> FALSE, val |-> [ t |-> "none" ] ]

\* the payloads of inbound messages
Payloads ==
    { << "1" >>, << "1", "2" >>, << "h" >>, << Quote, "h", Quote >>,
      << "[", "1", ",", Quote, "h", Quote, "]" >>, << "[", "]" >>,
      << "[", "[", "2", "]", "]" >>,
      << "[", "1" >>, << "[", "1", ",", "]" >>, << "1", "h" >>, <<>>,
      << Quote, "h" >>, << "]" >> }

----------------------------------------------------------------------------
(* Websocket connections: state and the ws library as the code uses it *)

Conns == { "c1", "c2" }

\* wsSend's first argument when no websocket is given
NoWs == "undefined"

\* what a write on an open socket reports to its callback: nothing, or an error
WriteOutcomes == { "none", "EIO" }

\* the err of the callback of ws.ping / ws.send on a websocket that is not
\* open: 'WebSocket is not open: readyState 2 (CLOSING)' or '... 3 (CLOSED)'
NotOpenError(rs) == IF rs = "CLOSED" THEN "NOT_OPEN_CLOSED" ELSE "NOT_OPEN_CLOSING"

\* err.message.includes('CLOSED')
MessageIncludesCLOSED(err) == err = "NOT_OPEN_CLOSED"

\* ws.terminate() that reopens nothing but leaves a CLOSED websocket CLOSING
Terminate_Reenter(rs) == "CLOSING"

\* ws.terminate(): nothing when already CLOSED, else the socket is destroyed
\* and the websocket is CLOSING until the socket's close is delivered
Terminate(rs) == IF rs = "CLOSED" THEN "CLOSED" ELSE "CLOSING"

NoCb == [ conn |-> "none", err |-> "none" ]

NoPre == [ isAlive |-> FALSE, pingTimer |-> "unset", readyState |-> "none",
           pongs |-> "none" ]

Pre(c) ==
    IF c \in Conns
    THEN [ isAlive |-> isAlive[c], pingTimer |-> pingTimer[c],
           readyState |-> readyState[c], pongs |-> pongs[c] ]
    ELSE NoPre

NoDta == [ type |-> "none", str |-> <<>> ]

\* the record kept of the callback or call that ran last
Event(op, c, effects, result) ==
    [ op |-> op, conn |-> c, msg |-> <<>>, dta |-> NoDta, err |-> "none",
      pre |-> Pre(c), effects |-> effects, result |-> result ]

NoEvent ==
    [ op |-> "none", conn |-> "none", msg |-> <<>>, dta |-> NoDta, err |-> "none",
      pre |-> NoPre, effects |-> <<>>, result |-> "none" ]

\* no callback queued with process.nextTick is waiting: such a callback runs
\* before any timer, socket or request callback
Idle == nextTickCb = NoCb

Bump(n, cap) == IF n < cap THEN n + 1 ELSE cap

\* counting pongs: none, one, more than one
OneMore(n) == IF n = "none" THEN "one" ELSE "many"

----------------------------------------------------------------------------
(* logMsg and wsSend *)

\* logMsg(errOrMsg) / logMsg(msg, level) without a websocket: one console line.
\* With no level given a string is logged as 'info', an Error as 'error'
logMsg(what, isString, level) ==
    << [ e |-> "log",
         level |-> IF level # "" THEN level
                   ELSE IF isString THEN "info" ELSE "error",
         what |-> what ] >>

\* the payloads wsSend is called with
Datas ==
    { [ type |-> "string", str |-> << "h" >> ],
      [ type |-> "string", str |-> <<>> ],
      [ type |-> "object", str |-> <<>> ],      \* a plain object, { }
      [ type |-> "circular", str |-> <<>> ],    \* an object that holds itself
      [ type |-> "bigint", str |-> <<>> ],      \* 1n
      [ type |-> "nullproto", str |-> <<>> ] }  \* Object.create(null)

\* typeof dta === "string" || dta instanceof String
IsString(dta) == dta.type = "string"

\* JSON.stringify(dta): throws a TypeError on a circular structure and on a
\* BigInt
JSON_stringify(dta) ==
    IF dta.type \in { "circular", "bigint" }
    THEN [ ok |-> FALSE, text |-> <<>> ]
    ELSE [ ok |-> TRUE, text |-> << "{", "}" >> ]

\* `${dta}`: the string itself, '[object Object]' for an object with
\* Object.prototype.toString, the digits of a BigInt; a TypeError for an
\* object that has no toString (null prototype)
TemplateString(dta) ==
    IF dta.type = "nullproto" THEN [ ok |-> FALSE, text |-> <<>> ]
    ELSE IF dta.type = "string" THEN [ ok |-> TRUE, text |-> dta.str ]
    ELSE IF dta.type = "bigint" THEN [ ok |-> TRUE, text |-> << "1" >> ]
    ELSE [ ok |-> TRUE, text |-> << "[", "o", "b", "j", "e", "c", "t", "]" >> ]

\* ws && ws.readyState === WebSocket.OPEN
ReadyToSend(w) == w \in Conns /\ readyState[w] = "OPEN"

\* wsSend(ws, dta), called by the application
wsSend(w, dta) ==
    /\ Idle
    /\ phase = "listening"
    /\ w \in Conns => connected[w]
    /\ IF ReadyToSend(w)
       THEN LET data == IF IsString(dta) THEN [ ok |-> TRUE, text |-> dta.str ]
                        ELSE JSON_stringify(dta)
            IN  IF data.ok
                THEN /\ Len(sendCb[w]) < MaxPending
                     /\ \E outcome \in WriteOutcomes :
                            sendCb' = [ sendCb EXCEPT ![w] = Append(@, outcome) ]
                     /\ lastEvent' =
                          [ Event("wsSend", w,
                                  << [ e |-> "send", data |-> data.text ] >>,
                                  "undefined")
                            EXCEPT !.dta = dta ]
                \* JSON.stringify throws out of wsSend
                ELSE /\ lastEvent' =
                          [ Event("wsSend", w, <<>>, "throws") EXCEPT !.dta = dta ]
                     /\ UNCHANGED sendCb
       ELSE LET text == TemplateString(dta)
            IN  /\ lastEvent' =
                     IF text.ok
                     THEN [ Event("wsSend", w,
                                  logMsg("Websocket not ready for message", TRUE, "error"),
                                  "false")
                            EXCEPT !.dta = dta ]
                     \* the template literal throws out of wsSend
                     ELSE [ Event("wsSend", w, <<>>, "throws") EXCEPT !.dta = dta ]
                /\ UNCHANGED sendCb
    /\ UNCHANGED << connected, isAlive, pingTimer, readyState, pingCb, nextTickCb >>
    /\ UNCHANGED histVars
    /\ UNCHANGED << clsVars, httpVars >>

\* the callback wsSend gave ws.send: err => err ? logMsg(err) : false
SendCallback(c) ==
    /\ Idle
    /\ sendCb[c] # <<>>
    /\ LET err == Head(sendCb[c])
       IN  lastEvent' =
             [ Event("sendCallback", c,
                     IF err # "none" THEN logMsg(err, FALSE, "") ELSE <<>>,
                     "undefined")
               EXCEPT !.err = err ]
    /\ sendCb' = [ sendCb EXCEPT ![c] = Tail(@) ]
    /\ UNCHANGED << connected, isAlive, pingTimer, readyState, pingCb, nextTickCb >>
    /\ UNCHANGED histVars
    /\ UNCHANGED << clsVars, httpVars >>

----------------------------------------------------------------------------
(* logMsg with a websocket: logMsg calls wsSend, wsSend calls logMsg *)

\* what is recorded when the chain of calls is deeper than MaxDepth
Overflow == << [ e |-> "overflow" ] >>

RECURSIVE logMsgEffects(_, _, _, _, _), wsSendEffects(_, _, _)

\* a wsSend that hands its websocket on to logMsg when it is not ready
wsSendEffects_PassesWs(w, text, depth) ==
    IF depth > MaxDepth THEN Overflow
    ELSE IF ReadyToSend(w)
      THEN << [ e |-> "send", data |-> text ] >>
    ELSE logMsgEffects("Websocket not ready for message", TRUE, "error", w,
                       depth + 1)

\* wsSend(ws, <a string>), called at this depth of the chain: ws.send when
\* the websocket is OPEN, else logMsg(<text>, 'error') with no websocket
wsSendEffects(w, text, depth) ==
    IF depth > MaxDepth THEN Overflow
    ELSE IF ReadyToSend(w)
      THEN << [ e |-> "send", data |-> text ] >>
    ELSE logMsgEffects("Websocket not ready for message", TRUE, "error", NoWs,
                       depth + 1)

\* logMsg(errOrMsg, level, false, ws), called at this depth of the chain: the
\* console line, then `if (ws) wsSend(ws, <the line>)`
logMsgEffects(what, isString, level, w, depth) ==
    IF depth > MaxDepth THEN Overflow
    ELSE logMsg(what, isString, level)
         \o ( IF w # NoWs THEN wsSendEffects(w, what, depth + 1) ELSE <<>> )

\* logMsg(errOrMsg, level, false, ws), called by the application
LogMsgCall(w, isString, level) ==
    /\ Idle
    /\ phase = "listening"
    /\ w \in Conns => connected[w]
    /\ LET what == IF isString THEN "text" ELSE "Error"
       IN  lastEvent' = Event("logMsg", w,
                              logMsgEffects(what, isString, level, w, 1),
                              "undefined")
    /\ IF ReadyToSend(w)
       THEN /\ Len(sendCb[w]) < MaxPending
            /\ \E outcome \in WriteOutcomes :
                   sendCb' = [ sendCb EXCEPT ![w] = Append(@, outcome) ]
       ELSE UNCHANGED sendCb
    /\ UNCHANGED << connected, isAlive, pingTimer, readyState, pingCb, nextTickCb >>
    /\ UNCHANGED histVars
    /\ UNCHANGED << clsVars, httpVars >>

----------------------------------------------------------------------------
(* The 'connection' handler of startServer *)

\* closeWs that tears the connection down first and reports the error last
closeWsEffects_LogLast(err) ==
    << [ e |-> "clearInterval" ], [ e |-> "terminate" ] >>
    \o ( IF err # "none" /\ ~MessageIncludesCLOSED(err)
         THEN logMsg(err, FALSE, "") ELSE <<>> )

\* closeWs that tells the peer why before it closes: logMsg is given the
\* websocket and passes the text on to wsSend
closeWsEffects_TellPeer(err) ==
    logMsg(IF err # "none" THEN err ELSE "missed heartbeat", FALSE, "")
    \o << [ e |-> "send", data |-> << "h" >> ] >>
    \o << [ e |-> "clearInterval" ], [ e |-> "terminate" ] >>

\* what closeWs(ws, err) does, in order: the error is logged unless there is
\* none or its message includes 'CLOSED', the timer is cleared, the websocket
\* terminated
closeWsEffects(err) ==
    ( IF err # "none" /\ ~MessageIncludesCLOSED(err)
      THEN logMsg(err, FALSE, "") ELSE <<>> )
    \o << [ e |-> "clearInterval" ], [ e |-> "terminate" ] >>

\* closeWs that terminates the websocket but leaves the timer running
closeWs_KeepTimer(c, err) ==
    /\ pingTimer' = pingTimer
    /\ readyState' = [ readyState EXCEPT ![c] = Terminate(@) ]
    /\ closeCalls' = [ closeCalls EXCEPT ![c] = Bump(@, 2) ]

\* closeWs on a timer that the connections share: every timer is cleared
closeWs_SharedTimer(c, err) ==
    /\ pingTimer' = [ d \in Conns |-> IF connected[d] THEN "cleared" ELSE pingTimer[d] ]
    /\ readyState' = [ readyState EXCEPT ![c] = Terminate(@) ]
    /\ closeCalls' = [ closeCalls EXCEPT ![c] = Bump(@, 2) ]

\* closeWs(ws, err): its effect on the connection
closeWs(c, err) ==
    /\ pingTimer' = [ pingTimer EXCEPT ![c] = "cleared" ]
    /\ readyState' = [ readyState EXCEPT ![c] = Terminate(@) ]
    /\ closeCalls' = [ closeCalls EXCEPT ![c] = Bump(@, 2) ]

\* wss.on('connection', ws => ...): the flag is set, the handlers are
\* registered, the timer is armed
Connect(c) ==
    /\ Idle
    /\ phase = "listening"
    /\ ~connected[c]
    /\ connected' = [ connected EXCEPT ![c] = TRUE ]
    /\ isAlive' = [ isAlive EXCEPT ![c] = TRUE ]
    /\ readyState' = [ readyState EXCEPT ![c] = "OPEN" ]
    /\ pingTimer' = [ pingTimer EXCEPT ![c] = "armed" ]
    /\ lastEvent' = Event("connection", c, <<>>, "undefined")
    /\ UNCHANGED << pingCb, sendCb, nextTickCb >>
    /\ UNCHANGED histVars
    /\ UNCHANGED << clsVars, httpVars >>

\* the setInterval callback
Tick(c) ==
    /\ Idle
    /\ connected[c]
    /\ pingTimer[c] = "armed"
    /\ ticks' = [ ticks EXCEPT ![c] = Bump(@, MaxTicks) ]
    /\ missed' = [ missed EXCEPT ![c] = @ \/ ~acked[c] ]
    /\ pongs' = [ pongs EXCEPT ![c] = "none" ]
    /\ IF isAlive[c] = FALSE
       THEN /\ closeWs(c, "none")
            /\ lastEvent' = Event("tick", c, closeWsEffects("none"), "undefined")
            /\ UNCHANGED << isAlive, pingCb, nextTickCb, acked, pingFailed >>
       ELSE /\ isAlive' = [ isAlive EXCEPT ![c] = FALSE ]
            /\ acked' = [ acked EXCEPT ![c] = FALSE ]
            /\ lastEvent' = Event("tick", c, << [ e |-> "ping" ] >>, "undefined")
            /\ IF readyState[c] = "OPEN"
               \* the ping is written; its callback runs when the write is done
               THEN /\ Len(pingCb[c]) < MaxPending
                    /\ \E outcome \in WriteOutcomes :
                         /\ pingCb' = [ pingCb EXCEPT ![c] = Append(@, outcome) ]
                         /\ pingFailed' =
                              [ pingFailed EXCEPT ![c] = @ \/ outcome # "none" ]
                    /\ UNCHANGED nextTickCb
               \* not open: the callback is queued with process.nextTick
               ELSE /\ nextTickCb' =
                          [ conn |-> c, err |-> NotOpenError(readyState[c]) ]
                    /\ pingFailed' = [ pingFailed EXCEPT ![c] = TRUE ]
                    /\ UNCHANGED pingCb
            /\ UNCHANGED << pingTimer, readyState, closeCalls >>
    /\ UNCHANGED << connected, sendCb, everPong >>
    /\ UNCHANGED << clsVars, httpVars >>

\* a ping callback that leaves a failed probe to the next tick
PingCallback_WaitForTick(c) ==
    /\ Idle
    /\ pingCb[c] # <<>>
    /\ lastEvent' =
         [ Event("pingCallback", c, <<>>, "undefined")
           EXCEPT !.err = Head(pingCb[c]) ]
    /\ pingCb' = [ pingCb EXCEPT ![c] = Tail(@) ]
    /\ UNCHANGED << connected, isAlive, pingTimer, readyState, sendCb, nextTickCb >>
    /\ UNCHANGED histVars
    /\ UNCHANGED << clsVars, httpVars >>

\* the callback given to ws.ping, run when the write of a ping is done:
\* err => { if (err) return closeWs(ws, err); }
PingCallback(c) ==
    /\ Idle
    /\ pingCb[c] # <<>>
    /\ LET err == Head(pingCb[c])
       IN  IF err # "none"
           THEN /\ closeWs(c, err)
                /\ lastEvent' =
                     [ Event("pingCallback", c, closeWsEffects(err), "undefined")
                       EXCEPT !.err = err ]
           ELSE /\ lastEvent' = Event("pingCallback", c, <<>>, "undefined")
                /\ UNCHANGED << pingTimer, readyState, closeCalls >>
    /\ pingCb' = [ pingCb EXCEPT ![c] = Tail(@) ]
    /\ UNCHANGED << connected, isAlive, sendCb, nextTickCb >>
    /\ UNCHANGED << ticks, everPong, acked, pongs, missed, pingFailed >>
    /\ UNCHANGED << clsVars, httpVars >>

\* a callback of the failed ping that only takes note of the error
NextTickCallback_NoClose ==
    /\ nextTickCb # NoCb
    /\ lastEvent' =
         [ Event("pingCallback", nextTickCb.conn, <<>>, "undefined")
           EXCEPT !.err = nextTickCb.err ]
    /\ nextTickCb' = NoCb
    /\ UNCHANGED << connected, isAlive, pingTimer, readyState, pingCb, sendCb >>
    /\ UNCHANGED histVars
    /\ UNCHANGED << clsVars, httpVars >>

\* the same callback, run from the process.nextTick queue with the error of a
\* ping on a websocket that was not open
NextTickCallback ==
    /\ nextTickCb # NoCb
    /\ LET c == nextTickCb.conn
           err == nextTickCb.err
       IN  /\ closeWs(c, err)
           /\ lastEvent' =
                [ Event("pingCallback", c, closeWsEffects(err), "undefined")
                  EXCEPT !.err = err ]
    /\ nextTickCb' = NoCb
    /\ UNCHANGED << connected, isAlive, pingCb, sendCb >>
    /\ UNCHANGED << ticks, everPong, acked, pongs, missed, pingFailed >>
    /\ UNCHANGED << clsVars, httpVars >>

\* a 'pong' handler that leaves the flag alone
Pong_NoFlag(c) ==
    /\ Idle
    /\ connected[c]
    /\ readyState[c] \in { "OPEN", "CLOSING" }
    /\ everPong' = [ everPong EXCEPT ![c] = TRUE ]
    /\ acked' = [ acked EXCEPT ![c] = TRUE ]
    /\ pongs' = [ pongs EXCEPT ![c] = OneMore(@) ]
    /\ lastEvent' = Event("pong", c, <<>>, "undefined")
    /\ UNCHANGED wsVars
    /\ UNCHANGED << ticks, missed, pingFailed, closeCalls >>
    /\ UNCHANGED << clsVars, httpVars >>

\* a 'pong' handler that flips the flag, so that a second pong undoes the first
Pong_Toggle(c) ==
    /\ Idle
    /\ connected[c]
    /\ readyState[c] \in { "OPEN", "CLOSING" }
    /\ isAlive' = [ isAlive EXCEPT ![c] = ~@ ]
    /\ everPong' = [ everPong EXCEPT ![c] = TRUE ]
    /\ acked' = [ acked EXCEPT ![c] = TRUE ]
    /\ pongs' = [ pongs EXCEPT ![c] = OneMore(@) ]
    /\ lastEvent' = Event("pong", c, <<>>, "undefined")
    /\ UNCHANGED << connected, pingTimer, readyState, pingCb, sendCb, nextTickCb >>
    /\ UNCHANGED << ticks, missed, pingFailed, closeCalls >>
    /\ UNCHANGED << clsVars, httpVars >>

\* a 'pong' handler that restarts the heartbeat of a connection it finds
\* stopped
Pong_Rearm(c) ==
    /\ Idle
    /\ connected[c]
    /\ readyState[c] \in { "OPEN", "CLOSING" }
    /\ isAlive' = [ isAlive EXCEPT ![c] = TRUE ]
    /\ pingTimer' = [ pingTimer EXCEPT ![c] = "armed" ]
    /\ everPong' = [ everPong EXCEPT ![c] = TRUE ]
    /\ acked' = [ acked EXCEPT ![c] = TRUE ]
    /\ pongs' = [ pongs EXCEPT ![c] = OneMore(@) ]
    /\ lastEvent' = Event("pong", c, <<>>, "undefined")
    /\ UNCHANGED << connected, readyState, pingCb, sendCb, nextTickCb >>
    /\ UNCHANGED << ticks, missed, pingFailed, closeCalls >>
    /\ UNCHANGED << clsVars, httpVars >>

\* ws.on('pong', () => ws.isAlive = true)
Pong(c) ==
    /\ Idle
    /\ connected[c]
    /\ readyState[c] \in { "OPEN", "CLOSING" }
    /\ isAlive' = [ isAlive EXCEPT ![c] = TRUE ]
    /\ everPong' = [ everPong EXCEPT ![c] = TRUE ]
    /\ acked' = [ acked EXCEPT ![c] = TRUE ]
    /\ pongs' = [ pongs EXCEPT ![c] = OneMore(@) ]
    /\ lastEvent' = Event("pong", c, <<>>, "undefined")
    /\ UNCHANGED << connected, pingTimer, readyState, pingCb, sendCb, nextTickCb >>
    /\ UNCHANGED << ticks, missed, pingFailed, closeCalls >>
    /\ UNCHANGED << clsVars, httpVars >>

\* one call of the application's onWebsocketMessage(value, ws)
Dispatch(tag, value) == [ e |-> "dispatch", tag |-> tag, value |-> value ]

\* a 'message' handler that hands over the raw payload whatever it holds
MessageEffects_AlwaysRaw(msg, throws1) == << Dispatch("raw", msg) >>

\* the calls the 'message' handler makes for a payload; throws1: the
\* application's handler throws on the first of them
MessageEffects(msg, throws1) ==
    LET parsed == JSON_parse(msg)
    IN  IF parsed.ok
        THEN IF throws1
             THEN << Dispatch("parsed", parsed.val), Dispatch("raw", msg) >>
             ELSE << Dispatch("parsed", parsed.val) >>
        ELSE << Dispatch("raw", msg) >>

\* a 'message' handler that also counts a message as a sign of life
Message_SetsAlive(c, msg) ==
    /\ Idle
    /\ connected[c]
    /\ readyState[c] \in { "OPEN", "CLOSING" }
    /\ isAlive' = [ isAlive EXCEPT ![c] = TRUE ]
    /\ lastEvent' =
         [ Event("message", c, MessageEffects(msg, FALSE), "undefined")
           EXCEPT !.msg = msg ]
    /\ UNCHANGED << connected, pingTimer, readyState, pingCb, sendCb, nextTickCb >>
    /\ UNCHANGED histVars
    /\ UNCHANGED << clsVars, httpVars >>

\* ws.on('message', msg => { try {...} catch(e) {...} })
Message(c, msg) ==
    /\ Idle
    /\ connected[c]
    /\ readyState[c] \in { "OPEN", "CLOSING" }
    /\ \E throws1, throws2 \in BOOLEAN :
         LET parsed == JSON_parse(msg)
             \* the call in the catch block is the last one made; when it
             \* throws, the exception leaves the handler
             escapes == IF parsed.ok THEN throws1 /\ throws2 ELSE throws1
         IN  lastEvent' =
               [ Event("message", c, MessageEffects(msg, throws1),
                       IF escapes THEN "throws" ELSE "undefined")
                 EXCEPT !.msg = msg ]
    /\ UNCHANGED wsVars
    /\ UNCHANGED histVars
    /\ UNCHANGED << clsVars, httpVars >>

\* a connection handler that had registered closeWs for 'close'
PeerClose_Handled(c) ==
    /\ Idle
    /\ connected[c]
    /\ readyState[c] = "OPEN"
    /\ closeWs(c, "none")
    /\ lastEvent' = Event("close", c, <<>>, "undefined")
    /\ UNCHANGED << connected, isAlive, pingCb, sendCb, nextTickCb >>
    /\ UNCHANGED << ticks, everPong, acked, pongs, missed, pingFailed >>
    /\ UNCHANGED << clsVars, httpVars >>

\* the peer closes or the socket fails: the ws library leaves OPEN; the code
\* has registered no 'close' handler
PeerClose(c) ==
    /\ Idle
    /\ connected[c]
    /\ readyState[c] = "OPEN"
    /\ \E rs \in { "CLOSING", "CLOSED" } :
         readyState' = [ readyState EXCEPT ![c] = rs ]
    /\ lastEvent' = Event("close", c, <<>>, "undefined")
    /\ UNCHANGED << connected, isAlive, pingTimer, pingCb, sendCb, nextTickCb >>
    /\ UNCHANGED histVars
    /\ UNCHANGED << clsVars, httpVars >>

\* the socket of a CLOSING websocket is closed: the websocket is CLOSED
SocketClosed(c) ==
    /\ Idle
    /\ connected[c]
    /\ readyState[c] = "CLOSING"
    /\ readyState' = [ readyState EXCEPT ![c] = "CLOSED" ]
    /\ lastEvent' = Event("socketClosed", c, <<>>, "undefined")
    /\ UNCHANGED << connected, isAlive, pingTimer, pingCb, sendCb, nextTickCb >>
    /\ UNCHANGED histVars
    /\ UNCHANGED << clsVars, httpVars >>

----------------------------------------------------------------------------
(* startServer when the directory or the port fails *)

\* fs.readdirSync or fs.readFileSync throws (no such directory, no permission,
\* an entry that is a directory): there is no try around the loop, the
\* exception leaves startServer before server.listen; logMsg is not called
StartServerThrows ==
    /\ phase = "init"
    /\ phase' = "threw"
    /\ lastEvent' = Event("startServer", NoWs, <<>>, "throws")
    /\ UNCHANGED << disk, diskAtStart, filesCache, request, response >>
    /\ UNCHANGED << clsVars, wsVars, histVars >>

\* the port cannot be bound: the server emits 'error'. The function given to
\* server.listen is a listener of 'listening' only and is never run, so its
\* `if (err) return logMsg(err)` is never reached; no 'error' listener is
\* registered, the error is thrown as an uncaught exception
ListenError ==
    /\ phase = "created"
    /\ phase' = "bindError"
    /\ lastEvent' = Event("listen", NoWs, <<>>, "throws")
    /\ UNCHANGED << disk, diskAtStart, filesCache, request, response >>
    /\ UNCHANGED << clsVars, wsVars, histVars >>

----------------------------------------------------------------------------
(* Specifications *)

\* a directory for the runs that are about connections
SomeDisk == [ f \in { N_index_html } |-> << 1 >> ]

InitWs ==
    /\ connected = [ c \in Conns |-> FALSE ]
    /\ isAlive = [ c \in Conns |-> TRUE ]
    /\ pingTimer = [ c \in Conns |-> "unset" ]
    /\ readyState = [ c \in Conns |-> "CONNECTING" ]
    /\ pingCb = [ c \in Conns |-> <<>> ]
    /\ sendCb = [ c \in Conns |-> <<>> ]
    /\ nextTickCb = NoCb
    /\ lastEvent = NoEvent
    /\ ticks = [ c \in Conns |-> 0 ]
    /\ everPong = [ c \in Conns |-> FALSE ]
    /\ acked = [ c \in Conns |-> TRUE ]
    /\ pongs = [ c \in Conns |-> "none" ]
    /\ missed = [ c \in Conns |-> FALSE ]
    /\ pingFailed = [ c \in Conns |-> FALSE ]
    /\ closeCalls = [ c \in Conns |-> 0 ]

InitHttp(disks) ==
    /\ phase = "init"
    /\ disk \in disks
    /\ diskAtStart = << >>
    /\ filesCache = << >>
    /\ request = <<>>
    /\ response = NoResponse

InitCls(names) ==
    /\ clsName \in names
    /\ clsResult = ClsIdle

\* startServer is called; connections arrive, live and end
Init == InitCls({ <<>> }) /\ InitHttp({ SomeDisk }) /\ InitWs

\* the connection whose life Spec follows
Active == { "c1" }

Next ==
    \/ StartServer
    \/ StartServerThrows
    \/ Listening
    \/ ListenError
    \/ NextTickCallback
    \/ \E c \in Active : Connect(c)
    \/ \E c \in Active : Tick(c)
    \/ \E c \in Active : PingCallback(c)
    \/ \E c \in Active : Pong(c)
    \/ \E c \in Active : PeerClose(c)
    \/ \E c \in Active : SocketClosed(c)
    \/ \E c \in Active, msg \in Payloads : Message(c, msg)
    \/ \E w \in Active \cup { NoWs }, dta \in Datas : wsSend(w, dta)
    \/ \E c \in Active : SendCallback(c)

Spec == Init /\ [][Next]_vars

\* startServer is called on any directory; requests are answered
InitRequests == InitCls({ <<>> }) /\ InitHttp(Disks) /\ InitWs

NextRequests ==
    \/ StartServer
    \/ Listening
    \/ DiskWrite
    \/ \E url \in Urls : Request(url)

SpecRequests == InitRequests /\ [][NextRequests]_vars

\* two connections live side by side, "c1" the first to arrive; each is
\* followed for PairTicks ticks of its timer, with at most one pong between
\* two ticks, and the payload of a message plays no part
PairPayloads == { << "1" >> }

NextPair ==
    \/ StartServer
    \/ Listening
    \/ NextTickCallback
    \/ \E c \in Conns : ( c = "c2" => connected["c1"] ) /\ Connect(c)
    \/ \E c \in Conns : ticks[c] < PairTicks /\ Tick(c)
    \/ \E c \in Conns : PingCallback(c)
    \/ \E c \in Conns : pongs[c] = "none" /\ Pong(c)
    \/ \E c \in Conns : PeerClose(c)
    \/ \E c \in Conns : SocketClosed(c)
    \/ \E c \in Conns, msg \in PairPayloads : Message(c, msg)

SpecPair == Init /\ [][NextPair]_vars

\* the application logs, with and without a websocket, while a connection
\* arrives, lives and ends
NextLog ==
    \/ StartServer
    \/ Listening
    \/ NextTickCallback
    \/ \E c \in Active : Connect(c)
    \/ \E c \in Active : Tick(c)
    \/ \E c \in Active : PingCallback(c)
    \/ \E c \in Active : Pong(c)
    \/ \E c \in Active : PeerClose(c)
    \/ \E c \in Active : SocketClosed(c)
    \/ \E w \in Active \cup { NoWs }, isString \in BOOLEAN,
          level \in { "", "error", "warn" } : LogMsgCall(w, isString, level)
    \/ \E c \in Active : SendCallback(c)

SpecLog == Init /\ [][NextLog]_vars

\* fileToContentType is applied to file names
InitClassify == InitCls(ClsNames) /\ InitHttp({ SomeDisk }) /\ InitWs

NextClassify == Classify \/ ClassifyNext

SpecClassify == InitClassify /\ [][NextClassify]_vars

----------------------------------------------------------------------------
(* Properties *)

HasEffect(ev, name) == \E i \in 1..Len(ev.effects) : ev.effects[i].e = name

\* C1: a connection whose peer never sends a pong has its flag false after
\* the tick that sent the probe, is terminated by the very next tick (timer
\* cleared, websocket terminated), and sees no tick after that one.
C1_UnackedProbeTerminates ==
    \A c \in Conns :
        connected[c] /\ ~everPong[c] =>
            /\ ticks[c] >= 1 => isAlive[c] = FALSE
            /\ ticks[c] >= 2 =>
                   /\ pingTimer[c] = "cleared"
                   /\ readyState[c] # "OPEN"
                   /\ closeCalls[c] >= 1
            /\ ticks[c] <= 2

\* the second tick of a connection that never ponged, and whose probe was
\* written without error, has just terminated it
C1_Witness ==
    \E c \in Conns :
        /\ connected[c] /\ ~everPong[c] /\ ~pingFailed[c]
        /\ ticks[c] = 2
        /\ lastEvent.op = "tick" /\ lastEvent.conn = c
        /\ lastEvent.pre.readyState = "OPEN"
        /\ pingTimer[c] = "cleared" /\ readyState[c] = "CLOSING"

\* C2: a connection whose every probe was acknowledged before the next tick,
\* and whose probe sends never failed, has never been terminated by the
\* heartbeat: closeWs was not called and its timer is armed.
C2_AckedConnectionStaysAlive ==
    \A c \in Conns :
        connected[c] /\ ~missed[c] /\ ~pingFailed[c] =>
            pingTimer[c] = "armed" /\ closeCalls[c] = 0

\* as many ticks as the counter holds, each probe acknowledged: still alive
C2_Witness ==
    \E c \in Conns :
        /\ connected[c] /\ ~missed[c] /\ ~pingFailed[c] /\ everPong[c]
        /\ ticks[c] = MaxTicks
        /\ pingTimer[c] = "armed" /\ readyState[c] = "OPEN"

\* the payloads that are JSON texts, with the value each one denotes
JsonValueOf ==
    [ msg \in { << "1" >>, << "1", "2" >>, << Quote, "h", Quote >>,
                << "[", "1", ",", Quote, "h", Quote, "]" >>, << "[", "]" >>,
                << "[", "[", "2", "]", "]" >> } |->
        CASE msg = << "1" >> -> [ t |-> "num", n |-> 1 ]
          [] msg = << "1", "2" >> -> [ t |-> "num", n |-> 12 ]
          [] msg = << Quote, "h", Quote >> -> [ t |-> "str", s |-> << "h" >> ]
          [] msg = << "[", "]" >> -> [ t |-> "arr", items |-> <<>> ]
          [] msg = << "[", "[", "2", "]", "]" >> ->
               [ t |-> "arr",
                 items |-> << [ t |-> "arr", items |-> << [ t |-> "num", n |-> 2 ] >> ] >> ]
          [] OTHER ->
               [ t |-> "arr",
                 items |-> << [ t |-> "num", n |-> 1 ],
                              [ t |-> "str", s |-> << "h" >> ] >> ] ]

\* C3: for every inbound message, whatever came before it: a payload that is
\* JSON is handed to the handler as the value it denotes; any other payload is
\* handed over as it was received, and nothing else is handed over for it.
C3_DispatchParsedOrRaw ==
    lastEvent.op = "message" =>
        /\ Len(lastEvent.effects) >= 1
        /\ lastEvent.effects[1].e = "dispatch"
        /\ IF lastEvent.msg \in DOMAIN JsonValueOf
           THEN /\ lastEvent.effects[1].tag = "parsed"
                /\ lastEvent.effects[1].value = JsonValueOf[lastEvent.msg]
           ELSE /\ lastEvent.effects[1].tag = "raw"
                /\ lastEvent.effects[1].value = lastEvent.msg
                /\ Len(lastEvent.effects) = 1

\* the payload [1,"h"] has been dispatched as an array of 1 and "h"
C3_Witness ==
    /\ lastEvent.op = "message"
    /\ lastEvent.msg = << "[", "1", ",", Quote, "h", Quote, "]" >>
    /\ lastEvent.effects[1].tag = "parsed"
    /\ lastEvent.effects[1].value.t = "arr"
    /\ Len(lastEvent.effects[1].value.items) = 2

\* C4: wsSend on no websocket, or on one that is not OPEN, does not throw: it
\* sends nothing, logs the condition once as an error and returns false.
C4_NotReadyNeverThrows ==
    ( lastEvent.op = "wsSend" /\ lastEvent.pre.readyState # "OPEN" ) =>
        /\ lastEvent.result = "false"
        /\ ~HasEffect(lastEvent, "send")
        /\ Len(lastEvent.effects) = 1
        /\ lastEvent.effects[1].e = "log"

\* C5: wsSend on an OPEN websocket never throws, whatever the payload; an
\* error of the send is logged by the callback.
C5_SendErrorsReportedNotRaised ==
    /\ ( lastEvent.op = "wsSend" /\ lastEvent.pre.readyState = "OPEN" ) =>
           lastEvent.result # "throws"
    /\ ( lastEvent.op = "sendCallback" /\ lastEvent.err # "none" ) =>
           HasEffect(lastEvent, "log")

\* C6: a call of closeWs on a connection closeWs was already called on leaves
\* the timer cleared and the websocket's state and flag as they were, and
\* does not throw.
C6_TerminationIdempotent ==
    \A c \in Conns :
        ( /\ lastEvent.conn = c
          /\ HasEffect(lastEvent, "terminate")
          /\ closeCalls[c] = 2 ) =>
            /\ lastEvent.pre.pingTimer = "cleared"
            /\ pingTimer[c] = "cleared"
            /\ readyState[c] = lastEvent.pre.readyState
            /\ readyState[c] # "OPEN"
            /\ isAlive[c] = lastEvent.pre.isAlive
            /\ lastEvent.result # "throws"

\* closeWs has run a second time, from the callback of a failed probe, on a
\* websocket that was already CLOSED
C6_Witness ==
    \E c \in Conns :
        /\ closeCalls[c] = 2
        /\ lastEvent.conn = c /\ lastEvent.op = "pingCallback"
        /\ HasEffect(lastEvent, "terminate")
        /\ lastEvent.pre.readyState = "CLOSED"

\* C7 as claimed: once the channel has signalled closure the connection is
\* terminated: its timer is cleared.
C7_CloseSignalTerminates ==
    lastEvent.op = "close" => pingTimer[lastEvent.conn] = "cleared"

\* C7 amended: the closure of the channel runs no code of the connection: the
\* websocket is no longer OPEN, the flag and the timer are as they were. The
\* next tick terminates the connection: at once when the flag is false, else
\* through the callback of the failed probe, queued to run before any other
\* callback.
C7_CloseLeavesTimerToNextTick ==
    \A c \in Conns :
        lastEvent.conn = c =>
            /\ lastEvent.op = "close" =>
                   /\ readyState[c] # "OPEN"
                   /\ pingTimer[c] = lastEvent.pre.pingTimer
                   /\ isAlive[c] = lastEvent.pre.isAlive
                   /\ lastEvent.effects = <<>>
            /\ ( lastEvent.op = "tick" /\ lastEvent.pre.readyState # "OPEN" ) =>
                   \/ pingTimer[c] = "cleared"
                   \/ nextTickCb =
                        [ conn |-> c, err |-> NotOpenError(lastEvent.pre.readyState) ]
            /\ ( /\ lastEvent.op = "pingCallback"
                 /\ lastEvent.err \in { NotOpenError("CLOSING"), NotOpenError("CLOSED") } ) =>
                   pingTimer[c] = "cleared"

\* the peer closed, the timer stayed armed, and the tick after the closure
\* has run and queued the failed probe's callback
C7_Witness ==
    \E c \in Conns :
        /\ lastEvent.conn = c /\ lastEvent.op = "tick"
        /\ lastEvent.pre.readyState = "CLOSED"
        /\ closeCalls[c] = 0
        /\ pingTimer[c] = "armed"
        /\ nextTickCb.conn = c

\* C8: the cache holds exactly the files read at startup, whatever is
\* requested or written later; a request that resolves to a file that was
\* there is answered 200 with the bytes read at startup, a request that
\* resolves to any other name finds the name absent and is answered 404.
C8_CacheServesStartupFiles ==
    /\ phase # "init" => filesCache = diskAtStart
    /\ response.status # 0 =>
         LET f == ResolveName(request)
         IN  IF f \in DOMAIN diskAtStart
             THEN /\ response.status = 200
                  /\ response.ended
                  /\ response.body = "bytes"
                  /\ response.bytes = diskAtStart[f]
             ELSE /\ Lookup(filesCache, f).kind = "undefined"
                  /\ response.status = 404
                  /\ response.ended

\* the file name a URL asks for: what follows its last '/'
AfterLastSlash(url) ==
    LET slashes == { i \in 1..Len(url) : url[i] = "/" }
    IN  IF slashes = {} THEN url ELSE SubSeq(url, Max(slashes) + 1, Len(url))

\* the requests the claim C9 is about: the URL ends in '/', or its last path
\* segment is empty, 'index.html' or 'index.htm'
IsIndexRequest(url) ==
    \/ endsWithSlash(url)
    \/ AfterLastSlash(url) \in { <<>>, N_index_html, N_index_htm }

\* C9: a request that ends in '/' or whose last segment is empty, index.html
\* or index.htm is answered 200 with the bytes cached for index.html, or 404
\* when index.html was not in the directory; the entry of index.htm is never
\* what is served.
C9_IndexCollapse ==
    ( response.status # 0 /\ IsIndexRequest(request) ) =>
        IF N_index_html \in DOMAIN diskAtStart
        THEN /\ response.status = 200
             /\ response.ended
             /\ response.body = "bytes"
             /\ response.bytes = diskAtStart[N_index_html]
        ELSE /\ response.status = 404
             /\ response.ended
             /\ response.body = "404 Not Found"

\* /index.htm was requested with both files cached, with different bytes:
\* the bytes of index.html were served
C9_Witness ==
    /\ request = Slash \o N_index_htm
    /\ N_index_htm \in DOMAIN diskAtStart
    /\ N_index_html \in DOMAIN diskAtStart
    /\ diskAtStart[N_index_htm] # diskAtStart[N_index_html]
    /\ response.status = 200
    /\ response.bytes = diskAtStart[N_index_html]

\* the extension the claim C10 speaks of: what follows the last '.' of a name
\* that has one after its first character, in lower case; empty otherwise
ExtensionOf(name) ==
    LET dots == { i \in 2..Len(name) : name[i] = "." }
        raw == IF dots = {} THEN <<>> ELSE SubSeq(name, Max(dots) + 1, Len(name))
    IN  [ i \in 1..Len(raw) |->
            IF raw[i] \in DOMAIN UpperToLower THEN UpperToLower[raw[i]] ELSE raw[i] ]

\* the fixed content types of C10
FixedType(e) ==
    CASE e = << "j", "s" >> -> CT_javascript
      [] e = << "t", "x", "t" >> -> CT_textplain
      [] e = << "g", "i", "f" >> -> CT_gif
      [] e \in { << "j", "p", "g" >>, << "j", "p", "e", "g" >> } -> CT_jpeg
      [] e = << "p", "n", "g" >> -> CT_png
      [] e = << "p", "d", "f" >> -> CT_pdf
      [] e = << "z", "i", "p" >> -> CT_zip
      [] e = << "m", "p", "3" >> -> CT_mpeg
      [] e = << "w", "a", "v" >> -> CT_xwav
      [] OTHER -> <<>>

\* C10: for every file name the classifier returns: the fixed type of its
\* extension, taken without regard to case, when it has one; else text/ and
\* the extension when the extension is not empty; else text/plain.
C10_ClassifierTotal ==
    clsResult.done =>
        LET e == ExtensionOf(clsName)
        IN  /\ clsResult.cType =
                 IF FixedType(e) # <<>> THEN FixedType(e)
                 ELSE IF e # <<>> THEN << "t", "e", "x", "t", "/" >> \o e
                 ELSE << "t", "e", "x", "t", "/", "p", "l", "a", "i", "n" >>
            /\ clsName = << "a", ".", "j", "s" >> => clsResult.cType = CT_javascript
            /\ clsName = << "a", ".", "P", "N", "G" >> => clsResult.cType = CT_png
            /\ clsName = << "a", ".", "x", "y", "z" >> =>
                   clsResult.cType = << "t", "e", "x", "t", "/", "x", "y", "z" >>
            /\ clsName = << "a" >> => clsResult.cType = CT_textplain

\* a.PNG has been classified as image/png
C10_Witness ==
    /\ clsResult.done
    /\ clsName = << "a", ".", "P", "N", "G" >>
    /\ clsResult.cType = CT_png

\* C11: a callback of one connection (connection, tick, pong, message, probe
\* callback, closure) leaves the flag, the timer, the websocket state and the
\* count of closeWs calls of every other connection as they were.
C11_ConnectionsIsolated ==
    [][ \A d \in Conns :
            d # lastEvent'.conn =>
                /\ isAlive'[d] = isAlive[d]
                /\ pingTimer'[d] = pingTimer[d]
                /\ readyState'[d] = readyState[d]
                /\ closeCalls'[d] = closeCalls[d] ]_vars

\* one connection has just been terminated by a tick for a missed heartbeat
\* while the other, after a tick of its own, is open with its timer armed
C11_Witness ==
    \E c, d \in Conns :
        /\ c # d
        /\ lastEvent.op = "tick" /\ lastEvent.conn = c
        /\ HasEffect(lastEvent, "terminate")
        /\ pingTimer[c] = "cleared"
        /\ connected[d] /\ ticks[d] >= 1
        /\ pingTimer[d] = "armed" /\ readyState[d] = "OPEN"
        /\ closeCalls[d] = 0

\* C12: the cache holds every file of the directory before the port is
\* bound; a connection is accepted only after the bind succeeded; when the
\* directory cannot be read or the port cannot be bound, no connection is
\* accepted and the failure is reported through logMsg.
C12_StartupFailuresLogged ==
    /\ phase \in { "created", "listening", "bindError" } =>
           filesCache = diskAtStart
    /\ \A c \in Conns : connected[c] => phase = "listening"
    /\ phase \in { "threw", "bindError" } =>
           /\ \A c \in Conns : ~connected[c]
           /\ lastEvent.op \in { "startServer", "listen" }
           /\ HasEffect(lastEvent, "log")

\* C13: a tick that finds the timer armed and the flag true sets the flag
\* false and sends a ping and does nothing else; when the callback of a ping
\* reports an error, that callback itself clears the timer and terminates the
\* websocket, whatever the flag is by then.
C13_FailedProbeTerminatesAtOnce ==
    \A c \in Conns :
        lastEvent.conn = c =>
            /\ ( lastEvent.op = "tick" /\ lastEvent.pre.isAlive ) =>
                   /\ isAlive[c] = FALSE
                   /\ lastEvent.effects = << [ e |-> "ping" ] >>
                   /\ pingTimer[c] = "armed"
            /\ ( lastEvent.op = "pingCallback" /\ lastEvent.err # "none" ) =>
                   /\ HasEffect(lastEvent, "clearInterval")
                   /\ HasEffect(lastEvent, "terminate")
                   /\ pingTimer[c] = "cleared"
                   /\ readyState[c] # "OPEN"

\* the write of the first ping failed; a pong set the flag true before the
\* callback ran; the callback terminated the connection before a second tick
C13_Witness ==
    \E c \in Conns :
        /\ lastEvent.conn = c /\ lastEvent.op = "pingCallback"
        /\ lastEvent.err = "EIO"
        /\ lastEvent.pre.isAlive /\ lastEvent.pre.pingTimer = "armed"
        /\ lastEvent.pre.readyState = "OPEN"
        /\ ticks[c] = 1
        /\ isAlive[c]
        /\ pingTimer[c] = "cleared" /\ readyState[c] = "CLOSING"

\* what C14 and C15 say of the flag: a callback other than 'pong' never
\* turns a false flag true
OnlyPongSetsFlag ==
    \A c \in Conns :
        ( lastEvent.conn = c /\ lastEvent.op # "pong" ) =>
            ~( lastEvent.pre.isAlive = FALSE /\ isAlive[c] /\ lastEvent.op # "connection" )

\* a tick after the first has run and left the timer armed
SurvivedTick(c) ==
    /\ lastEvent.op = "tick" /\ lastEvent.conn = c
    /\ ticks[c] >= 2
    /\ pingTimer[c] = "armed"

\* C14 as claimed: only a pong turns the flag true after a tick set it false,
\* and a connection survives a tick only when exactly one pong arrived since
\* the tick before.
C14_ExactlyOneAckPerInterval ==
    /\ OnlyPongSetsFlag
    /\ \A c \in Conns : SurvivedTick(c) => lastEvent.pre.pongs = "one"

\* C14 amended: only a pong turns the flag true after a tick set it false; a
\* pong leaves the flag true however many came before it; a connection
\* survives a tick only when at least one pong arrived since the tick before.
C14_AtLeastOneAckPerInterval ==
    /\ OnlyPongSetsFlag
    /\ \A c \in Conns :
         /\ ( lastEvent.op = "pong" /\ lastEvent.conn = c ) => isAlive[c]
         /\ SurvivedTick(c) => lastEvent.pre.pongs \in { "one", "many" }

\* two pongs arrived between the first tick and the second: the second tick
\* found the flag true and sent the next probe
C14_Witness ==
    \E c \in Conns :
        /\ SurvivedTick(c)
        /\ lastEvent.pre.pongs = "many"
        /\ lastEvent.pre.isAlive
        /\ HasEffect(lastEvent, "ping")

\* C15: a 'message' callback leaves the flag, the timer and the websocket
\* state of its connection as they were; the flag changes only in a tick
\* (to false) and in a pong (to true); a connection that never sent a pong is
\* terminated by its second tick however many messages it sent.
C15_MessagesAreNoSignOfLife ==
    \A c \in Conns :
        /\ ( lastEvent.op = "message" /\ lastEvent.conn = c ) =>
               /\ isAlive[c] = lastEvent.pre.isAlive
               /\ pingTimer[c] = lastEvent.pre.pingTimer
               /\ readyState[c] = lastEvent.pre.readyState
        /\ ( lastEvent.conn = c /\ isAlive[c] # lastEvent.pre.isAlive ) =>
               \/ lastEvent.op = "tick" /\ ~isAlive[c]
               \/ lastEvent.op = "pong" /\ isAlive[c]
        /\ ( connected[c] /\ ~everPong[c] /\ ticks[c] >= 2 ) =>
               pingTimer[c] = "cleared" /\ readyState[c] # "OPEN"

\* a message has arrived after the first probe, unacknowledged, was sent:
\* the flag is still false and the timer armed
C15_Witness ==
    \E c \in Conns :
        /\ lastEvent.op = "message" /\ lastEvent.conn = c
        /\ Len(lastEvent.effects) >= 1
        /\ ticks[c] = 1 /\ ~everPong[c]
        /\ lastEvent.pre.isAlive = FALSE /\ isAlive[c] = FALSE
        /\ pingTimer[c] = "armed" /\ readyState[c] = "OPEN"

\* C16: closeWs called with an error: the error of a websocket that is
\* already CLOSED is not logged, the timer is cleared and the websocket
\* terminated; any other error is logged first, as an error, and only then
\* is the timer cleared and the websocket terminated.
C16_ErrorLoggedBeforeTeardown ==
    ( HasEffect(lastEvent, "terminate") /\ lastEvent.err # "none" ) =>
        IF lastEvent.err = "NOT_OPEN_CLOSED"
        THEN lastEvent.effects = << [ e |-> "clearInterval" ], [ e |-> "terminate" ] >>
        ELSE lastEvent.effects =
               << [ e |-> "log", level |-> "error", what |-> lastEvent.err ],
                  [ e |-> "clearInterval" ], [ e |-> "terminate" ] >>

\* the write of a ping failed on an open websocket: the error was logged,
\* then the timer cleared and the websocket terminated
C16_Witness ==
    \E c \in Conns :
        /\ lastEvent.conn = c /\ lastEvent.op = "pingCallback"
        /\ lastEvent.err = "EIO"
        /\ Len(lastEvent.effects) = 3
        /\ lastEvent.effects[1].e = "log"
        /\ lastEvent.effects[3].e = "terminate"
        /\ lastEvent.pre.pingTimer = "armed" /\ pingTimer[c] = "cleared"

\* C17: every call of closeWs, whether from the callback of a failed ping or
\* from a tick that found the flag false, logs something, unless it was given
\* the error of a websocket that is already CLOSED.
C17_EveryTerminationLogged ==
    ( HasEffect(lastEvent, "terminate") /\ lastEvent.err # "NOT_OPEN_CLOSED" ) =>
        HasEffect(lastEvent, "log")

\* C18: a callback that terminates a connection, for a missed heartbeat or
\* for a failed ping, sends nothing on its websocket: what it does is at most
\* a log line, then clearInterval, then terminate.
C18_NoMessageBeforeClose ==
    HasEffect(lastEvent, "terminate") =>
        /\ ~HasEffect(lastEvent, "send")
        /\ \A i \in 1..Len(lastEvent.effects) :
               lastEvent.effects[i].e \in { "log", "clearInterval", "terminate" }
        /\ lastEvent.effects[Len(lastEvent.effects)].e = "terminate"

\* a tick has found the flag false on a websocket that was still OPEN, where
\* a message could have been sent, and has closed it without sending
C18_Witness ==
    \E c \in Conns :
        /\ lastEvent.conn = c /\ lastEvent.op = "tick"
        /\ lastEvent.pre.readyState = "OPEN" /\ lastEvent.pre.isAlive = FALSE
        /\ lastEvent.effects = << [ e |-> "clearInterval" ], [ e |-> "terminate" ] >>
        /\ readyState[c] = "CLOSING"

\* C19: once closeWs has run for a connection, in every later state,
\* whatever callback ran last (a late pong, a pending ping callback, a
\* message, closeWs again): its timer is cleared, its websocket is not OPEN,
\* and the callback that ran last did not send a ping on it.
C19_TerminatedIsAbsorbing ==
    \A c \in Conns :
        closeCalls[c] >= 1 =>
            /\ pingTimer[c] = "cleared"
            /\ readyState[c] \in { "CLOSING", "CLOSED" }
            /\ ~( lastEvent.conn = c /\ HasEffect(lastEvent, "ping") )

\* a pong arrived for a connection already terminated by its second tick: it
\* set the flag true and left the timer cleared
C19_Witness ==
    \E c \in Conns :
        /\ closeCalls[c] >= 1
        /\ lastEvent.conn = c /\ lastEvent.op = "pong"
        /\ lastEvent.pre.isAlive = FALSE /\ isAlive[c]
        /\ lastEvent.pre.pingTimer = "cleared" /\ pingTimer[c] = "cleared"
        /\ readyState[c] = "CLOSING"

\* C20: the 'message' callback calls the application's handler exactly once
\* for a message, also when the handler throws on the parsed value; it never
\* calls it a second time with the raw payload.
C20_ExactlyOneDispatch ==
    lastEvent.op = "message" =>
        /\ Len(lastEvent.effects) = 1
        /\ lastEvent.effects[1].e = "dispatch"

\* C21: every request the handler has run for has a completed response of
\* status 200 or 404, whatever name was requested, names inherited from
\* Object.prototype included: none has its head written and is not ended.
C21_EveryRequestCompleted ==
    response.status # 0 =>
        /\ response.status \in { 200, 404 }
        /\ response.ended

\* the step is a run of the timer callback of connection c
TickStep(c) ==
    /\ lastEvent' # lastEvent
    /\ lastEvent'.op = "tick" /\ lastEvent'.conn = c

\* C22: a tick that finds the websocket no longer OPEN either clears the
\* timer itself or queues the callback of the failed ping; with that callback
\* queued the very next step is its run, which clears the timer; and no tick
\* runs once the timer is cleared. So at most one tick follows the closure.
C22_OneTickAfterClosure ==
    [][ \A c \in Conns :
            /\ ( connected[c] /\ readyState[c] # "OPEN" /\ TickStep(c) ) =>
                   \/ pingTimer'[c] = "cleared"
                   \/ nextTickCb' = [ conn |-> c, err |-> NotOpenError(readyState[c]) ]
            /\ nextTickCb.conn = c =>
                   /\ pingTimer'[c] = "cleared"
                   /\ ~TickStep(c)
            /\ pingTimer[c] = "cleared" => ~TickStep(c) ]_vars

\* the peer closed a connection whose probes had all been acknowledged; the
\* one tick after the closure sent a ping that failed, and its callback has
\* cleared the timer
C22_Witness ==
    \E c \in Conns :
        /\ lastEvent.conn = c /\ lastEvent.op = "pingCallback"
        /\ lastEvent.err = "NOT_OPEN_CLOSED"
        /\ lastEvent.pre.pingTimer = "armed" /\ lastEvent.pre.readyState = "CLOSED"
        /\ ~missed[c] /\ everPong[c]
        /\ closeCalls[c] = 1
        /\ pingTimer[c] = "cleared"

\* C23: a call of logMsg ends after at most three calls in all. Without a
\* websocket it logs one line. With a websocket that is OPEN it logs one line
\* and wsSend sends it. With a websocket in any other state it logs one
\* line, wsSend logs once more, as an error and without a websocket, and
\* nothing follows.
C23_LogChainStops ==
    lastEvent.op = "logMsg" =>
        /\ ~HasEffect(lastEvent, "overflow")
        /\ Len(lastEvent.effects) >= 1
        /\ lastEvent.effects[1].e = "log"
        /\ IF lastEvent.conn = NoWs
           THEN Len(lastEvent.effects) = 1
           ELSE IF lastEvent.pre.readyState = "OPEN"
           THEN /\ Len(lastEvent.effects) = 2
                /\ lastEvent.effects[2].e = "send"
           ELSE /\ Len(lastEvent.effects) = 2
                /\ lastEvent.effects[2] =
                     [ e |-> "log", level |-> "error",
                       what |-> "Websocket not ready for message" ]

\* logMsg was called with a websocket that is CLOSED: two lines were logged
\* and nothing was sent
C23_Witness ==
    \E c \in Conns :
        /\ lastEvent.op = "logMsg" /\ lastEvent.conn = c
        /\ lastEvent.pre.readyState = "CLOSED"
        /\ Len(lastEvent.effects) = 2
        /\ lastEvent.effects[1].e = "log" /\ lastEvent.effects[2].e = "log"
        /\ sendCb[c] = <<>>

=============================================================================
